---- MODULE Spec2Model ----
(***************************************************************************)
(* A model of the Moneyball ML prediction service:                         *)
(*   moneyball_ml_python/prediction/predict.py  (PredictionService)        *)
(*   moneyball_ml_python/app.py                 (Flask routes)             *)
(* Python dicts whose key order is observable are sequences of <<key,      *)
(* value>> pairs in insertion order; JSON objects read from sidecar files  *)
(* are TLA+ records.  Floats are integers (probabilities in 1/1000).       *)
(***************************************************************************)
EXTENDS Integers, Sequences, FiniteSets, TLC

VARIABLES
    directory,        \* models_dir on disk: path -> file content
    loaded_models,    \* PredictionService.loaded_models
    model_metadata,   \* PredictionService.model_metadata
    pc,               \* position of load_models: "idle", "loop", "store_meta";
                      \* "raised" when an exception escaped it
    model_files,      \* load_models: files the for loop has still to process
    cur,              \* load_models: model_version and metadata of the iteration
    passes,           \* completed load_models calls (the coarse clock of loaded_at)
    call              \* the last call made to the service or to a route, and its result

vars == <<directory, loaded_models, model_metadata, pc, model_files, cur, passes, call>>

----------------------------------------------------------------------------
(* Bounds of the model *)

MaxFiles == 3
MaxPasses == 2
MaxTick == 1
MaxFeatures == 2

MaxConfigs == 3

----------------------------------------------------------------------------
(* Python dict as an insertion-ordered sequence of <<key, value>> pairs *)

EmptyDict == << >>

DictKeys(d) == [i \in 1..Len(d) |-> d[i][1]]

DictKeySet(d) == {d[i][1] : i \in 1..Len(d)}

DictHas(d, k) == \E i \in 1..Len(d) : d[i][1] = k

DictGet(d, k) == d[CHOOSE i \in 1..Len(d) : d[i][1] = k][2]

DictPut_Append(d, k, v) == Append(d, <<k, v>>)

DictPut(d, k, v) ==
    IF DictHas(d, k)
    THEN [i \in 1..Len(d) |-> IF d[i][1] = k THEN <<k, v>> ELSE d[i]]
    ELSE Append(d, <<k, v>>)

----------------------------------------------------------------------------
(* Python values that reach the service from JSON *)

PyNone == [t |-> "None"]

Num(n) == [t |-> "num", n |-> n]

Str(s) == [t |-> "str", s |-> s]

PyDict(items) == [t |-> "dict", items |-> items]

PyList(items) == [t |-> "list", items |-> items]

\* an int too large for a float, such as json.loads gives for a literal of
\* 400 digits
BigInt == [t |-> "bigint"]

\* bool(value) is False
Falsy(v) ==
    \/ v.t = "None"
    \/ v.t \in {"dict", "list"} /\ v.items = << >>
    \/ v.t = "num" /\ v.n = 0
    \/ v.t = "str" /\ v.s = ""

\* float(value): the number, or the exception float raises
FloatOfStr == ("3" :> 3) @@ (" 7 " :> 7)

FloatOf(v) ==
    IF v.t = "num" THEN [ok |-> TRUE, val |-> v.n]
    ELSE IF v.t = "str"
         THEN IF v.s \in DOMAIN FloatOfStr
              THEN [ok |-> TRUE, val |-> FloatOfStr[v.s]]
              ELSE [ok |-> FALSE, exc |-> "ValueError"]
         ELSE IF v.t = "bigint"
         THEN [ok |-> FALSE, exc |-> "OverflowError"]
         ELSE [ok |-> FALSE, exc |-> "TypeError"]

\* Feature names, in the order sorted() gives them
SortedNames == <<"a", "m", "z">>

FeatureNames == {SortedNames[i] : i \in 1..Len(SortedNames)}

FeatureValues == {Num(1), Num(2), Str("3"), Str("x"), PyNone, BigInt}

----------------------------------------------------------------------------
(* The models directory *)

Stems == {"nba", "NBA"}

ScenarioStems == {"nba", "NBA", "nfl"}

ModelSuffixes == {"pkl", "joblib"}

Path(stem, suffix) == [stem |-> stem, suffix |-> suffix]

\* pathlib: model_path.stem and model_path.with_suffix('.json')
StemOf(path) == path.stem

WithSuffix(path, suffix) == [stem |-> path.stem, suffix |-> suffix]

\* What joblib.load finds in a model file: a pickled estimator (named by its
\* class), or bytes it cannot deserialize and the exception it raises then.
Corrupt == [pickle |-> "corrupt", exc |-> "UnpicklingError"]

Pickled(obj) == [pickle |-> "ok", obj |-> obj]

\* What json.load finds in a sidecar file: text that does not parse, or a
\* JSON object of the documented format (predict.py lines 113-118).
JsonError == [json |-> "error"]

JsonObject(fields) == [json |-> "ok", fields |-> fields]

InactiveMeta == JsonObject([is_active |-> FALSE, expected_features |-> PyList(<<"a", "m">>)])

ActiveMeta == JsonObject([is_active |-> TRUE, expected_features |-> PyList(<<"z", "a">>)])

BareMeta == JsonObject([description |-> "NBA Model v1"])

Sidecars == {JsonError, InactiveMeta, ActiveMeta, BareMeta}

Merge(f, g) == [p \in DOMAIN f \cup DOMAIN g |-> IF p \in DOMAIN f THEN f[p] ELSE g[p]]

\* Every directory with at most n model files over the given stems, each
\* holding one of contents, and for each stem that has a model file either
\* no sidecar or one of sidecars.
DirectoriesOver(stems, contents, sidecars, n) ==
    UNION { UNION { { Merge(fc, [p \in {Path(s, "json") : s \in ss} |-> sc[p.stem]]) :
                        fc \in [ps -> contents], sc \in [ss -> sidecars] } :
                    ss \in SUBSET {StemOf(p) : p \in ps} } :
            ps \in {q \in SUBSET {Path(s, x) : s \in stems, x \in ModelSuffixes} :
                        Cardinality(q) <= n} }

----------------------------------------------------------------------------
(* PredictionService._load_metadata *)

DefaultMetadata == [is_active |-> TRUE, expected_features |-> PyList(<< >>)]

LoadMetadata_NoDefaultOnError(metadata_path) ==
    IF metadata_path \notin DOMAIN directory
    THEN DefaultMetadata
    ELSE IF directory[metadata_path].json = "error"
         THEN [is_active |-> FALSE, expected_features |-> PyList(<< >>)]
         ELSE directory[metadata_path].fields

LoadMetadata(metadata_path) ==
    IF metadata_path \notin DOMAIN directory
    THEN DefaultMetadata
    ELSE IF directory[metadata_path].json = "error"
         THEN DefaultMetadata
         ELSE directory[metadata_path].fields

\* dict.get(key, default) on a JSON object
Get(obj, key, default) == IF key \in DOMAIN obj THEN obj[key] ELSE default

----------------------------------------------------------------------------
(* PredictionService.load_models *)

\* list(glob("*.pkl")) + list(glob("*.joblib")): each glob in an order the
\* file system chooses.
Glob(suffix) == {p \in DOMAIN directory : p.suffix = suffix}

Orderings(S) ==
    {q \in [1..Cardinality(S) -> S] : \A i, j \in 1..Cardinality(S) : q[i] = q[j] => i = j}

GlobLists_PklOnly == Orderings(Glob("pkl"))

GlobLists_JoblibFirst == {b \o a : a \in Orderings(Glob("pkl")), b \in Orderings(Glob("joblib"))}

GlobLists == {a \o b : a \in Orderings(Glob("pkl")), b \in Orderings(Glob("joblib"))}

\* joblib.load(model_path): the object, or the exception raised
JoblibLoad(model_path) ==
    IF directory[model_path].pickle = "ok"
    THEN [ok |-> TRUE, obj |-> directory[model_path].obj]
    ELSE [ok |-> FALSE, exc |-> directory[model_path].exc]

\* if not metadata.get('is_active', True)
Skipped_IgnoresIsActive(metadata) == FALSE

Skipped(metadata) == ~ Get(metadata, "is_active", TRUE)

\* except Exception as e: ... continue
Catches_OnlyValueError(exc) == exc = "ValueError"

Catches(exc) == TRUE

LoadModels_Start_ClearsWhenEmpty ==
    /\ pc = "idle"
    /\ passes < MaxPasses
    /\ \E files \in GlobLists :
          IF files = << >>
          THEN /\ passes' = passes + 1
               /\ loaded_models' = EmptyDict
               /\ model_metadata' = EmptyDict
               /\ UNCHANGED <<pc, model_files>>
          ELSE /\ model_files' = files
               /\ pc' = "loop"
               /\ UNCHANGED <<passes, loaded_models, model_metadata>>
    /\ UNCHANGED <<directory, cur, call>>

LoadModels_Start ==
    /\ pc = "idle"
    /\ passes < MaxPasses
    /\ \E files \in GlobLists :
          IF files = << >>
          THEN /\ passes' = passes + 1
               /\ UNCHANGED <<pc, model_files>>
          ELSE /\ model_files' = files
               /\ pc' = "loop"
               /\ UNCHANGED passes
    /\ UNCHANGED <<directory, loaded_models, model_metadata, cur, call>>

\* One iteration of the for loop up to and including the store into
\* loaded_models (lines 66-89), or its continue (skip, or caught exception).
LoadModels_Iter ==
    /\ pc = "loop"
    /\ model_files # << >>
    /\ LET model_path == Head(model_files)
           model_version == StemOf(model_path)
           metadata == LoadMetadata(WithSuffix(model_path, "json"))
           loaded == JoblibLoad(model_path)
       IN  IF Skipped(metadata)
           THEN /\ model_files' = Tail(model_files)
                /\ UNCHANGED <<loaded_models, cur, pc>>
           ELSE IF ~ loaded.ok
           THEN IF Catches(loaded.exc)
                THEN /\ model_files' = Tail(model_files)
                     /\ UNCHANGED <<loaded_models, cur, pc>>
                ELSE /\ pc' = "raised"
                     /\ UNCHANGED <<loaded_models, cur, model_files>>
           ELSE /\ loaded_models' =
                     DictPut(loaded_models, model_version,
                             [model |-> loaded.obj, path |-> model_path,
                              loaded_at |-> passes + 1])
                /\ cur' = [model_version |-> model_version, metadata |-> metadata]
                /\ pc' = "store_meta"
                /\ UNCHANGED model_files
    /\ UNCHANGED <<directory, model_metadata, passes, call>>

LoadModels_StoreMeta_Forgets ==
    /\ pc = "store_meta"
    /\ model_files' = Tail(model_files)
    /\ pc' = "loop"
    /\ UNCHANGED <<directory, loaded_models, model_metadata, cur, passes, call>>

\* self.model_metadata[model_version] = metadata (line 91) and the loop's next turn
LoadModels_StoreMeta ==
    /\ pc = "store_meta"
    /\ model_metadata' = DictPut(model_metadata, cur.model_version, cur.metadata)
    /\ model_files' = Tail(model_files)
    /\ pc' = "loop"
    /\ UNCHANGED <<directory, loaded_models, cur, passes, call>>

\* the loop is exhausted: lines 100-107 and the return
LoadModels_Return ==
    /\ pc = "loop"
    /\ model_files = << >>
    /\ pc' = "idle"
    /\ passes' = passes + 1
    /\ UNCHANGED <<directory, loaded_models, model_metadata, model_files, cur, call>>

NoCall == [op |-> "none"]

NoCur == [model_version |-> "", metadata |-> DefaultMetadata]

\* PredictionService.__init__ and a models directory
InitService ==
    /\ loaded_models = EmptyDict
    /\ model_metadata = EmptyDict
    /\ pc = "idle"
    /\ model_files = << >>
    /\ cur = NoCur
    /\ passes = 0
    /\ call = NoCall

Init ==
    /\ directory \in DirectoriesOver(Stems, {Corrupt, Pickled("FakeFullModel")}, Sidecars, MaxFiles)
    /\ InitService

Next ==
    \/ LoadModels_Start
    \/ LoadModels_Iter
    \/ LoadModels_StoreMeta
    \/ LoadModels_Return

Spec == Init /\ [][Next]_vars

\* Between two passes the model files may be taken away: the directory is
\* removed, or only its sidecars are left.
Directory_Clear ==
    /\ pc = "idle"
    /\ \E p \in DOMAIN directory : p.suffix \in ModelSuffixes
    /\ \/ directory' = [p \in {} |-> Corrupt]
       \/ directory' = [p \in {q \in DOMAIN directory : q.suffix = "json"} |-> directory[p]]
    /\ UNCHANGED <<loaded_models, model_metadata, pc, model_files, cur, passes, call>>

NextReload ==
    \/ LoadModels_Start
    \/ LoadModels_Iter
    \/ LoadModels_StoreMeta
    \/ LoadModels_Return
    \/ Directory_Clear

SpecReload == Init /\ [][NextReload]_vars

----------------------------------------------------------------------------
(* PredictionService.prepare_features *)

\* except (ValueError, TypeError) around float(value)
CoercionCaught_OnlyValueError(exc) == exc = "ValueError"

CoercionCaught(exc) == exc \in {"ValueError", "TypeError"}

\* the expected-order branch, lines 230-250: the row, or the exception that
\* leaves the branch
ExpectedOrderRow(features, expected_features) ==
    IF features.t # "dict" THEN [ok |-> FALSE, exc |-> "TypeError"]
    ELSE LET value(i) ==
                 IF DictHas(features.items, expected_features[i])
                 THEN DictGet(features.items, expected_features[i])
                 ELSE Num(0)
             escapes(i) == ~ FloatOf(value(i)).ok /\ ~ CoercionCaught(FloatOf(value(i)).exc)
         IN  IF \E i \in 1..Len(expected_features) : escapes(i)
             THEN [ok |-> FALSE,
                   exc |-> FloatOf(value(CHOOSE i \in 1..Len(expected_features) :
                               escapes(i) /\ \A j \in 1..(i - 1) : ~ escapes(j))).exc]
             ELSE [ok |-> TRUE,
                   row |-> [i \in 1..Len(expected_features) |->
                               IF FloatOf(value(i)).ok THEN FloatOf(value(i)).val ELSE 0]]

\* the alphabetical branch, lines 254-256
SortedKeys_InsertionOrder(items) == DictKeys(items)

SortedKeys(items) == SelectSeq(SortedNames, LAMBDA name : DictHas(items, name))

AlphabeticalRow(features) ==
    IF features.t # "dict" THEN [ok |-> FALSE, exc |-> "AttributeError"]
    ELSE LET feature_names == SortedKeys(features.items)
             fails(i) == ~ FloatOf(DictGet(features.items, feature_names[i])).ok
         IN  IF \E i \in 1..Len(feature_names) : fails(i)
             THEN [ok |-> FALSE,
                   exc |-> FloatOf(DictGet(features.items,
                               feature_names[CHOOSE i \in 1..Len(feature_names) :
                                   fails(i) /\ \A j \in 1..(i - 1) : ~ fails(j)])).exc]
             ELSE [ok |-> TRUE,
                   row |-> [i \in 1..Len(feature_names) |->
                               FloatOf(DictGet(features.items, feature_names[i])).val]]

\* if expected_features: (None and [] are both false)
UseExpectedOrder(expected_features) == ~ Falsy(expected_features)

\* The array returned: a sequence of rows; np.array([[]]) when anything escaped.
PrepareFeatures(features, expected_features) ==
    LET r == IF UseExpectedOrder(expected_features)
             THEN ExpectedOrderRow(features, expected_features.items)
             ELSE AlphabeticalRow(features)
    IN  IF r.ok THEN <<r.row>> ELSE << << >> >>

----------------------------------------------------------------------------
(* The estimators of tests/test_predict.py, which the model files hold *)

ModelClasses == {"FakeFullModel", "FakeModelMissingPredictProba", "FakeFullModelWithException"}

\* The classifiers that training/model_trainer.py fits, each with the
\* probabilities (in 1/1000) that it answers for the row it is given
TrainedProba ==
    ("LogisticRegression" :> << <<800, 200>> >>) @@
    ("RandomForestClassifier" :> << <<0, 1000>> >>)

TrainedClasses == DOMAIN TrainedProba

\* hasattr(model, 'predict_proba')
HasPredictProba_Never(model) == FALSE

HasPredictProba(model) ==
    model \in {"FakeFullModel", "FakeFullModelWithException"} \cup TrainedClasses

\* model.predict_proba(X): [[P(class 0), P(class 1)]] in 1/1000, or the exception
PredictProba(model, X) ==
    IF model = "FakeFullModelWithException"
    THEN [ok |-> FALSE, exc |-> "Prediction failed"]
    ELSE IF model \in TrainedClasses
    THEN [ok |-> TRUE, val |-> TrainedProba[model]]
    ELSE [ok |-> TRUE, val |-> << <<350, 650>> >>]

\* model.predict(X): [value] in 1/1000, or the exception
ModelPredict(model, X) ==
    IF model = "FakeFullModelWithException"
    THEN [ok |-> FALSE, exc |-> "Prediction failed"]
    ELSE [ok |-> TRUE, val |-> <<650>>]

Abs_Identity(x) == x

Abs(x) == IF x < 0 THEN -x ELSE x

----------------------------------------------------------------------------
(* PredictionService.predict, get_loaded_models, get_model_info *)

\* str.lower() on the version strings of the model
Lower(s) == IF s = "NBA" THEN "nba" ELSE s

\* version in self.loaded_models, and self.loaded_models[version] when it is:
\* the entry, or PyNone
Lookup_IgnoringCase(version) ==
    IF \E i \in 1..Len(loaded_models) : Lower(loaded_models[i][1]) = Lower(version)
    THEN loaded_models[CHOOSE i \in 1..Len(loaded_models) :
                           Lower(loaded_models[i][1]) = Lower(version)][2]
    ELSE PyNone

Lookup(version) ==
    IF DictHas(loaded_models, version) THEN DictGet(loaded_models, version) ELSE PyNone

Found(version) == Lookup(version) # PyNone

\* except Exception as e: (line 203) catches whatever the try block raises
PredictCatches_NothingFromScoring(exc) == FALSE

PredictCatches(exc) == TRUE

\* return {"error": str(e), "model_version": version}
ErrorPayload_WithTiming(exc, version, elapsed) ==
    [error |-> exc, model_version |-> version, prediction_time_ms |-> elapsed]

ErrorPayload(exc, version, elapsed) == [error |-> exc, model_version |-> version]

NoOut == [ret |-> PyNone, prepared |-> FALSE, scored |-> FALSE, raised |-> FALSE, methods |-> {}]

\* predict(version, features) with the time spent in the lookup (dl), in
\* prepare_features (dp) and in the scoring call (ds): what it returns
\* (ret), whether prepare_features (prepared) and a scoring call of the
\* model (scored, and methods: which of its methods) were made, and whether
\* an exception left it (raised).
\* start_time is taken before the lookup.
\* metadata = self.model_metadata.get(version, {}) and
\* expected_features = metadata.get('expected_features', []) (lines 160-161)
ExpectedFeatures(version) ==
    Get(IF DictHas(model_metadata, version)
        THEN DictGet(model_metadata, version)
        ELSE [none |-> TRUE],
        "expected_features", PyList(<< >>))

\* (time.time() - start_time) * 1000 at line 186, start_time taken at line 147,
\* the first statement of predict: the lookup (dl), prepare_features (dp) and
\* the scoring (ds) all lie between the two readings of the clock
Elapsed_ScoringOnly(dl, dp, ds) == ds

Elapsed(dl, dp, ds) == dl + dp + ds

Predict(version, features, dl, dp, ds) ==
    IF ~ Found(version)
    THEN NoOut
    ELSE
    LET model == Lookup(version).model
        expected_features == ExpectedFeatures(version)
        feature_array == PrepareFeatures(features, expected_features)
        scoring == IF HasPredictProba(model)
                   THEN PredictProba(model, feature_array)
                   ELSE ModelPredict(model, feature_array)
        home_win_prob == IF HasPredictProba(model) THEN scoring.val[1][2] ELSE scoring.val[1]
        away_win_prob == IF HasPredictProba(model) THEN scoring.val[1][1] ELSE 1000 - home_win_prob
        confidence == IF HasPredictProba(model) THEN Abs(home_win_prob - 500) * 2 ELSE 500
        elapsed == Elapsed(dl, dp, ds)
        methods == IF HasPredictProba(model) THEN {"predict_proba"} ELSE {"predict"}
    IN  IF scoring.ok
        THEN [ret |-> [home_win_probability |-> home_win_prob,
                       away_win_probability |-> away_win_prob,
                       confidence |-> confidence,
                       model_version |-> version,
                       prediction_time_ms |-> elapsed],
              prepared |-> TRUE, scored |-> TRUE, raised |-> FALSE, methods |-> methods]
        ELSE IF PredictCatches(scoring.exc)
        THEN [ret |-> ErrorPayload(scoring.exc, version, elapsed),
              prepared |-> TRUE, scored |-> TRUE, raised |-> FALSE, methods |-> methods]
        ELSE [ret |-> PyNone, prepared |-> TRUE, scored |-> TRUE, raised |-> TRUE,
              methods |-> methods]

GetLoadedModels == DictKeys(loaded_models)

GetModelInfo(version) ==
    IF ~ Found(version) THEN PyNone
    ELSE [path |-> Lookup(version).path,
          loaded_at |-> Lookup(version).loaded_at,
          metadata |-> IF DictHas(model_metadata, version)
                       THEN DictGet(model_metadata, version)
                       ELSE [none |-> TRUE]]

----------------------------------------------------------------------------
(* app.py: POST /predict/<version> *)

\* The request: no body (content_length None or 0), or the value that
\* request.get_json() parses from it
NoBody == [kind |-> "none"]

JsonBody(data) == [kind |-> "json", data |-> data]

\* key in data: the answer, or the TypeError that a number raises
Contains(data, key) ==
    IF data.t = "dict" THEN [ok |-> TRUE, val |-> DictHas(data.items, key)]
    ELSE [ok |-> FALSE, exc |-> "TypeError"]

\* f"Model {version} not found"
NotFoundMessage(version) == <<"Model ", version, " not found">>

\* if not features: (line 72)
RejectsFeatures_OnlyNone(features) == features = PyNone

RejectsFeatures(features) == Falsy(features)

\* if result is None: (line 79)
IsNotFound_OrError(result) == result = PyNone \/ "error" \in DOMAIN result

IsNotFound(result) == result = PyNone

BadRequest(message) == [status |-> 400, json |-> [error |-> message], out |-> NoOut, called |-> FALSE]

\* an exception that leaves the view function: Flask answers 500
ServerError(called, out) ==
    [status |-> 500, json |-> [error |-> "Internal Server Error"], out |-> out, called |-> called]

\* The response (status, json), whether prediction_service.predict was
\* called, and what that call did (out).
HttpPredict(version, body, dl, dp, ds) ==
    IF body.kind = "none"
    THEN BadRequest("Missing request body")
    ELSE IF Falsy(body.data)
    THEN BadRequest("Missing features in request body")
    ELSE IF ~ Contains(body.data, "features").ok
    THEN ServerError(FALSE, NoOut)
    ELSE IF ~ Contains(body.data, "features").val
    THEN BadRequest("Missing features in request body")
    ELSE IF RejectsFeatures(DictGet(body.data.items, "features"))
    THEN BadRequest("Missing features in request body")
    ELSE LET out == Predict(version, DictGet(body.data.items, "features"), dl, dp, ds) IN
         IF out.raised
         THEN ServerError(TRUE, out)
         ELSE IF IsNotFound(out.ret)
         THEN [status |-> 404,
               json |-> [error |-> NotFoundMessage(version),
                         available_models |-> GetLoadedModels],
               out |-> out, called |-> TRUE]
         ELSE [status |-> 200, json |-> out.ret, out |-> out, called |-> TRUE]

----------------------------------------------------------------------------
(* Calls: the callers of the service and of the route *)

\* The versions, feature mappings and request bodies that callers send
Versions == Stems \cup {"nonexistent_model"}

CallFeatures ==
    { PyDict(<< <<"a", Num(1)>>, <<"z", Num(2)>> >>),
      PyDict(<< <<"m", Str("x")>> >>),
      PyDict(<< >>),
      PyNone }

Bodies ==
    {NoBody, JsonBody(PyDict(<< >>)), JsonBody(PyDict(<< <<"other", Num(1)>> >>)), JsonBody(Num(5))}
        \cup {JsonBody(PyDict(<< <<"features", f>> >>)) : f \in CallFeatures}

Ticks == 0..MaxTick

\* The server answers only after main() has run load_models (app.py 168-172);
\* a call is answered before the next one is looked at.
Serving == pc = "idle" /\ passes >= 1 /\ call = NoCall

Call_Predict ==
    /\ Serving
    /\ \E version \in Versions, features \in CallFeatures, dl, dp, ds \in Ticks :
          call' = [op |-> "predict", version |-> version, features |-> features,
                   lookup_ticks |-> dl, prepare_ticks |-> dp, scoring_ticks |-> ds,
                   out |-> Predict(version, features, dl, dp, ds)]
    /\ UNCHANGED <<directory, loaded_models, model_metadata, pc, model_files, cur, passes>>

\* get_model_info pops 'model' from info and stores 'metadata' in it (lines
\* 272-273); info is the .copy() of the stored entry (line 271), so the stored
\* entry is what it was
StoredAfterInfo_Aliased(entry, info) == info

StoredAfterInfo(entry, info) == entry

Call_GetModelInfo ==
    /\ Serving
    /\ \E version \in Versions :
          /\ call' = [op |-> "get_model_info", version |-> version, ret |-> GetModelInfo(version)]
          /\ loaded_models' =
                IF Found(version)
                THEN DictPut(loaded_models, version,
                             StoredAfterInfo(Lookup(version), GetModelInfo(version)))
                ELSE loaded_models
    /\ UNCHANGED <<directory, model_metadata, pc, model_files, cur, passes>>

Call_GetLoadedModels ==
    /\ Serving
    /\ call' = [op |-> "get_loaded_models", ret |-> GetLoadedModels]
    /\ UNCHANGED <<directory, loaded_models, model_metadata, pc, model_files, cur, passes>>

Http_Predict ==
    /\ Serving
    /\ \E version \in Versions, body \in Bodies, dl, dp, ds \in Ticks :
          call' = [op |-> "POST /predict", version |-> version, body |-> body,
                   response |-> HttpPredict(version, body, dl, dp, ds)]
    /\ UNCHANGED <<directory, loaded_models, model_metadata, pc, model_files, cur, passes>>

\* the caller has its answer
Call_Return ==
    /\ call # NoCall
    /\ call' = NoCall
    /\ UNCHANGED <<directory, loaded_models, model_metadata, pc, model_files, cur, passes>>

\* main(): load_models is called once, before the server starts
Main_LoadModels == passes = 0 /\ LoadModels_Start

InitServing ==
    /\ directory \in DirectoriesOver(Stems, {Pickled(m) : m \in ModelClasses},
                                     {ActiveMeta, InactiveMeta}, MaxFiles)
    /\ InitService

NextServing ==
    \/ Main_LoadModels
    \/ LoadModels_Iter
    \/ LoadModels_StoreMeta
    \/ LoadModels_Return
    \/ Call_Predict
    \/ Call_GetModelInfo
    \/ Call_GetLoadedModels
    \/ Http_Predict
    \/ Call_Return

SpecServing == InitServing /\ [][NextServing]_vars

\* predict over the estimators of the tests and of the trainer: one artifact
\* name, every estimator class
InitScoring ==
    /\ directory \in DirectoriesOver({"nba"}, {Pickled(m) : m \in ModelClasses \cup TrainedClasses},
                                     {ActiveMeta}, MaxFiles)
    /\ InitService

NextScoring ==
    \/ Main_LoadModels
    \/ LoadModels_Iter
    \/ LoadModels_StoreMeta
    \/ LoadModels_Return
    \/ Call_Predict
    \/ Call_Return

SpecScoring == InitScoring /\ [][NextScoring]_vars

----------------------------------------------------------------------------
(* prepare_features on its own *)

\* Insertion-ordered feature mappings of at most n features
DictsOver(names, values, n) ==
    UNION { { [i \in 1..k |-> <<ks[i], vs[i]>>] :
                ks \in {q \in [1..k -> names] : \A i, j \in 1..k : q[i] = q[j] => i = j},
                vs \in [1..k -> values] } :
            k \in 0..n }

FeatureMappings == {PyDict(d) : d \in DictsOver(FeatureNames, FeatureValues, MaxFeatures)}

\* expected_features: None, or a list of distinct feature names
ExpectedOrders ==
    {PyNone} \cup
    UNION { {PyList(q) : q \in {r \in [1..k -> FeatureNames] :
                                    \A i, j \in 1..k : r[i] = r[j] => i = j}} :
            k \in 0..Len(SortedNames) }

Call_PrepareFeatures ==
    /\ call = NoCall
    /\ \E features \in FeatureMappings \cup {PyNone}, expected_features \in ExpectedOrders :
          call' = [op |-> "prepare_features", features |-> features,
                   expected_features |-> expected_features,
                   ret |-> PrepareFeatures(features, expected_features)]
    /\ UNCHANGED <<directory, loaded_models, model_metadata, pc, model_files, cur, passes>>

EmptyDirectory == [p \in {} |-> Corrupt]

InitPrepare ==
    /\ directory = EmptyDirectory
    /\ InitService

NextPrepare ==
    \/ Call_PrepareFeatures
    \/ Call_Return

SpecPrepare == InitPrepare /\ [][NextPrepare]_vars

\* The scenario of three artifacts: one stem with a sidecar that does not
\* parse, one marked inactive, one valid and active; every model file
\* deserializes.
ScenarioDirectories ==
    {d \in DirectoriesOver(ScenarioStems, {Pickled("FakeFullModel")}, Sidecars,
                           Cardinality(ScenarioStems)) :
        /\ {p.stem : p \in {q \in DOMAIN d : q.suffix \in ModelSuffixes}} = ScenarioStems
        /\ \E bad, off \in ScenarioStems :
              /\ bad # off
              /\ \A s \in ScenarioStems :
                    LET sidecar == Path(s, "json") IN
                    IF s = bad THEN sidecar \in DOMAIN d /\ d[sidecar] = JsonError
                    ELSE IF s = off THEN sidecar \in DOMAIN d /\ d[sidecar] = InactiveMeta
                    ELSE sidecar \in DOMAIN d => d[sidecar] \in {ActiveMeta, BareMeta}}

InitScenario ==
    /\ directory \in ScenarioDirectories
    /\ InitService

SpecScenario == InitScenario /\ [][Next]_vars

----------------------------------------------------------------------------
(* What the claims say about the files on disk, stated on the directory *)

ModelFilesOnDisk == {p \in DOMAIN directory : p.suffix \in ModelSuffixes}

SidecarOf(p) == Path(p.stem, "json")

SidecarAbsent(p) == SidecarOf(p) \notin DOMAIN directory

SidecarMalformed(p) == ~ SidecarAbsent(p) /\ directory[SidecarOf(p)].json = "error"

MarkedInactive(p) ==
    /\ ~ SidecarAbsent(p)
    /\ directory[SidecarOf(p)].json = "ok"
    /\ "is_active" \in DOMAIN directory[SidecarOf(p)].fields
    /\ directory[SidecarOf(p)].fields.is_active = FALSE

Deserializes(p) == directory[p].pickle = "ok"

Returned == pc = "idle" /\ passes >= 1

----------------------------------------------------------------------------
(* Claims about the registry *)

\* C1: every version in loaded_models belongs to an artifact on disk that is
\* not marked inactive and that deserializes, and holds the deserialized,
\* non-null model object; model_metadata holds nothing for a version that
\* loaded_models lacks, and no metadata that marks the model inactive.
C1_RegistryOnlyActiveLoaded ==
    /\ \A i \in 1..Len(loaded_models) :
          LET version == loaded_models[i][1]
              entry == loaded_models[i][2]
          IN  /\ entry.path \in ModelFilesOnDisk
              /\ StemOf(entry.path) = version
              /\ ~ MarkedInactive(entry.path)
              /\ Deserializes(entry.path)
              /\ entry.model = directory[entry.path].obj
              /\ entry.model # "None"
    /\ \A i \in 1..Len(model_metadata) :
          /\ DictHas(loaded_models, model_metadata[i][1])
          /\ "is_active" \in DOMAIN model_metadata[i][2] => model_metadata[i][2].is_active

C1_Witness ==
    /\ Returned
    /\ Len(loaded_models) >= 1
    /\ \E p, q \in ModelFilesOnDisk :
          /\ MarkedInactive(p)
          /\ ~ MarkedInactive(q) /\ ~ Deserializes(q)

C3_BadFileSkippedAlone ==
    /\ [](pc # "raised")
    /\ [][ ( /\ pc = "loop"
             /\ model_files # << >>
             /\ ~ MarkedInactive(Head(model_files))
             /\ ~ Deserializes(Head(model_files)) )
           => ( /\ pc' = "loop"
                /\ model_files' = Tail(model_files)
                /\ loaded_models' = loaded_models
                /\ model_metadata' = model_metadata ) ]_vars
    /\ [](pc = "idle" => model_files = << >>)

C3_Witness ==
    /\ Returned
    /\ \E r \in ModelFilesOnDisk :
          /\ r.suffix = "pkl" /\ ~ MarkedInactive(r) /\ ~ Deserializes(r)
          /\ \E i \in 1..Len(loaded_models) :
                /\ loaded_models[i][2].path.suffix = "joblib"
                /\ loaded_models[i][1] # StemOf(r)

\* C4 as stated: with one artifact whose metadata is malformed JSON, one
\* marked inactive and one valid, get_loaded_models returns exactly the name
\* of the valid one.
C4_OnlyValidRegistered ==
    Returned =>
        /\ Len(DictKeys(loaded_models)) = 1
        /\ \A p \in ModelFilesOnDisk :
              DictHas(loaded_models, StemOf(p)) <=>
                  (~ SidecarMalformed(p) /\ ~ MarkedInactive(p))

\* C4 amended: the inactive artifact is not registered; the artifact with
\* malformed metadata is registered under the default metadata, and
\* get_loaded_models returns its name and the valid artifact's, nothing else.
C4_InactiveOnlyExcluded ==
    Returned =>
        /\ Len(DictKeys(loaded_models)) = 2
        /\ \A p \in ModelFilesOnDisk :
              /\ (\E i \in 1..Len(loaded_models) : DictKeys(loaded_models)[i] = StemOf(p))
                     <=> ~ MarkedInactive(p)
              /\ SidecarMalformed(p) =>
                     /\ DictHas(model_metadata, StemOf(p))
                     /\ DictGet(model_metadata, StemOf(p)) =
                            [is_active |-> TRUE, expected_features |-> PyList(<< >>)]

C4_Witness ==
    /\ Returned
    /\ \E p, q \in ModelFilesOnDisk :
          /\ SidecarMalformed(p) /\ DictHas(loaded_models, StemOf(p))
          /\ MarkedInactive(q) /\ ~ DictHas(loaded_models, StemOf(q))

\* C5: an artifact whose sidecar is absent or does not parse is loaded as an
\* active model with metadata is_active true and expected_features empty,
\* and the pass does not fail.
C5_MetadataDefault ==
    /\ pc # "raised"
    /\ Returned =>
          \A p \in ModelFilesOnDisk :
              ((SidecarAbsent(p) \/ SidecarMalformed(p)) /\ Deserializes(p)) =>
                  /\ DictHas(loaded_models, StemOf(p))
                  /\ DictHas(model_metadata, StemOf(p))
                  /\ DictGet(model_metadata, StemOf(p)) =
                         [is_active |-> TRUE, expected_features |-> PyList(<< >>)]

C5_Witness ==
    /\ Returned
    /\ \E p, q \in ModelFilesOnDisk :
          /\ SidecarAbsent(p) /\ Deserializes(p) /\ DictHas(model_metadata, StemOf(p))
          /\ SidecarMalformed(q) /\ Deserializes(q) /\ DictHas(model_metadata, StemOf(q))

----------------------------------------------------------------------------
(* Claims about predict, get_model_info and the route *)

\* C6: predict and get_model_info return None exactly when the version is
\* not a key of loaded_models, by exact (case-sensitive) match; predict then
\* neither vectorizes nor scores, and raises nothing.
C6_NotFoundIsNone ==
    /\ call.op = "predict" =>
          /\ ~ call.out.raised
          /\ (call.out.ret = PyNone) <=> (call.version \notin DictKeySet(loaded_models))
          /\ call.version \notin DictKeySet(loaded_models) =>
                 ~ call.out.prepared /\ ~ call.out.scored
    /\ call.op = "get_model_info" =>
          ((call.ret = PyNone) <=> (call.version \notin DictKeySet(loaded_models)))

C6_Witness ==
    /\ call.op = "predict"
    /\ call.version = "NBA"
    /\ DictKeySet(loaded_models) = {"nba"}
    /\ call.out.ret = PyNone

\* C7: for a version in the registry predict never raises, and when the
\* model's scoring call raises it returns exactly the keys error (the
\* exception's message) and model_version (the version asked for).
C7_ScoringErrorInBand ==
    (call.op = "predict" /\ DictHas(loaded_models, call.version)) =>
        /\ ~ call.out.raised
        /\ DictGet(loaded_models, call.version).model = "FakeFullModelWithException" =>
               /\ DOMAIN call.out.ret = {"error", "model_version"}
               /\ call.out.ret.error = "Prediction failed"
               /\ call.out.ret.model_version = call.version

C7_Witness ==
    /\ call.op = "predict"
    /\ DictHas(loaded_models, call.version)
    /\ DictGet(loaded_models, call.version).model = "FakeFullModelWithException"
    /\ call.out.scored
    /\ call.out.ret = [error |-> "Prediction failed", model_version |-> call.version]

\* C8: POST /predict/<version> answers 404, with the not-found message and
\* available_models, exactly when predict returned None; otherwise it
\* answers with predict's payload unchanged, and an error payload (error,
\* model_version) never carries available_models.
C8_NotFoundAndErrorDistinct ==
    call.op = "POST /predict" =>
        LET r == call.response IN
        /\ (r.status = 404) <=> (r.called /\ ~ r.out.raised /\ r.out.ret = PyNone)
        /\ r.status = 404 =>
               r.json = [error |-> <<"Model ", call.version, " not found">>,
                         available_models |-> DictKeys(loaded_models)]
        /\ (r.called /\ ~ r.out.raised /\ r.out.ret # PyNone) =>
               r.status = 200 /\ r.json = r.out.ret
        /\ "model_version" \in DOMAIN r.json => "available_models" \notin DOMAIN r.json

C8_Witness ==
    /\ call.op = "POST /predict"
    /\ call.response.status = 200
    /\ DOMAIN call.response.json = {"error", "model_version"}
    /\ Len(loaded_models) >= 1

\* C9: a request with no body, without a 'features' key or with an empty
\* features mapping is answered 400, and predict is not called for it.
HasFeaturesKey(body) ==
    /\ body.kind = "json"
    /\ body.data.t = "dict"
    /\ \E i \in 1..Len(body.data.items) : body.data.items[i][1] = "features"

FeaturesOf(body) ==
    body.data.items[CHOOSE i \in 1..Len(body.data.items) : body.data.items[i][1] = "features"][2]

Malformed(body) ==
    \/ ~ HasFeaturesKey(body)
    \/ FeaturesOf(body) = PyDict(<< >>)

C9_MalformedRejectedBeforePredict ==
    (call.op = "POST /predict" /\ Malformed(call.body)) =>
        /\ call.response.status = 400
        /\ ~ call.response.called

\* What holds of C9 in the code: predict is not called for a malformed request.
C9_MalformedNeverReachesPredict ==
    (call.op = "POST /predict" /\ Malformed(call.body)) =>
        /\ ~ call.response.called
        /\ ~ call.response.out.prepared
        /\ ~ call.response.out.scored

----------------------------------------------------------------------------
(* Claims about prepare_features *)

\* C10: with a non-empty expected order of length N and a feature mapping,
\* prepare_features returns one row of N values: float(features[name]) where
\* the name is present and its value coercible, 0.0 where it is missing or
\* its value cannot be coerced, in the expected order.
C10_ExpectedOrderRow ==
    ( /\ call.op = "prepare_features"
      /\ call.features.t = "dict"
      /\ call.expected_features.t = "list"
      /\ call.expected_features.items # << >> ) =>
        LET names == call.expected_features.items
            items == call.features.items
            present(i) == \E k \in 1..Len(items) : items[k][1] = names[i]
            given(i) == items[CHOOSE k \in 1..Len(items) : items[k][1] = names[i]][2]
        IN  /\ Len(call.ret) = 1
            /\ Len(call.ret[1]) = Len(names)
            /\ \A i \in 1..Len(names) :
                  call.ret[1][i] =
                      IF present(i) /\ FloatOf(given(i)).ok THEN FloatOf(given(i)).val ELSE 0

\* What holds of C10 in the code: the same, for values that float() converts
\* or rejects with ValueError or TypeError.
C10_ExpectedOrderRowNoOverflow ==
    ( /\ call.op = "prepare_features"
      /\ call.features.t = "dict"
      /\ call.expected_features.t = "list"
      /\ call.expected_features.items # << >>
      /\ \A k \in 1..Len(call.features.items) : call.features.items[k][2] # BigInt ) =>
        C10_ExpectedOrderRow

\* Lexicographic order of the feature names, and the place of a name among
\* the keys of a mapping (1 for the smallest).
LexLess(x, y) == <<x, y>> \in {<<"a", "m">>, <<"a", "z">>, <<"m", "z">>}

RankAmong(name, items) ==
    1 + Cardinality({k \in 1..Len(items) : LexLess(items[k][1], name)})

NoExpectedOrder == call.expected_features \in {PyNone, PyList(<< >>)}

\* C11: with an empty expected order the row lists the values by the
\* lexicographically sorted keys of the mapping, whatever its insertion order.
C11_AlphabeticalOrder ==
    ( /\ call.op = "prepare_features"
      /\ NoExpectedOrder
      /\ call.features.t = "dict"
      /\ \A k \in 1..Len(call.features.items) : FloatOf(call.features.items[k][2]).ok ) =>
        LET items == call.features.items IN
        /\ Len(call.ret) = 1
        /\ Len(call.ret[1]) = Len(items)
        /\ \A k \in 1..Len(items) :
              call.ret[1][RankAmong(items[k][1], items)] = FloatOf(items[k][2]).val

C11_Witness ==
    /\ call.op = "prepare_features"
    /\ call.expected_features = PyList(<< >>)
    /\ call.features = PyDict(<< <<"z", Num(2)>>, <<"a", Num(1)>> >>)
    /\ call.ret = << <<1, 2>> >>

\* C12: with an empty expected order a value that cannot be coerced becomes
\* 0.0 at its sorted position, the other values are kept, and the row has one
\* column per supplied feature.
C12_AlphabeticalCoercion ==
    ( /\ call.op = "prepare_features"
      /\ NoExpectedOrder
      /\ call.features.t = "dict"
      /\ \E k \in 1..Len(call.features.items) : ~ FloatOf(call.features.items[k][2]).ok ) =>
        LET items == call.features.items IN
        /\ Len(call.ret) = 1
        /\ Len(call.ret[1]) = Len(items)
        /\ \A k \in 1..Len(items) :
              call.ret[1][RankAmong(items[k][1], items)] =
                  IF FloatOf(items[k][2]).ok THEN FloatOf(items[k][2]).val ELSE 0

\* What the code does in the case of C12: the row is empty.
C12_AlphabeticalCollapse ==
    ( /\ call.op = "prepare_features"
      /\ NoExpectedOrder
      /\ call.features.t = "dict"
      /\ \E k \in 1..Len(call.features.items) : ~ FloatOf(call.features.items[k][2]).ok ) =>
        call.ret = << << >> >>

\* C13: prepare_features returns shape (1, N) for any input, N the length of
\* a non-empty expected order and the number of supplied features otherwise;
\* for a None mapping that is (1, 0) with an empty expected order and N zeros
\* with an expected order of length N.
ShapeN ==
    IF NoExpectedOrder
    THEN IF call.features.t = "dict" THEN Len(call.features.items) ELSE 0
    ELSE Len(call.expected_features.items)

C13_ShapeForAnyInput ==
    call.op = "prepare_features" =>
        /\ Len(call.ret) = 1
        /\ Len(call.ret[1]) = ShapeN
        /\ (call.features = PyNone /\ ~ NoExpectedOrder) =>
               \A i \in 1..ShapeN : call.ret[1][i] = 0

\* What holds of C13 in the code: one row always, and (1, 0) for a None
\* mapping whatever the expected order.
C13_OneRowAndNoneIsEmpty ==
    call.op = "prepare_features" =>
        /\ Len(call.ret) = 1
        /\ call.features = PyNone => call.ret = << << >> >>

----------------------------------------------------------------------------
(* utils/edge_calculator.py.  Python floats are exact rationals <<n, d>>     *)
(* in lowest terms with d > 0; an odds argument is a number, Real(q), or a   *)
(* string, Str(s).  A function returns [ok |-> TRUE, val |-> v] or           *)
(* [ok |-> FALSE, exc |-> the exception raised].                             *)

RECURSIVE Gcd(_, _)
Gcd(x, y) == IF y = 0 THEN x ELSE Gcd(y, x % y)

Norm(n, d) ==
    LET g == Gcd(Abs(n), Abs(d))
        sign == IF d < 0 THEN -1 ELSE 1
    IN  <<sign * (n \div g), sign * (d \div g)>>

R(n) == <<n, 1>>

RAdd(x, y) == Norm(x[1] * y[2] + y[1] * x[2], x[2] * y[2])

RSub(x, y) == Norm(x[1] * y[2] - y[1] * x[2], x[2] * y[2])

RMul(x, y) == Norm(x[1] * y[1], x[2] * y[2])

\* x / y for y # 0
RDiv(x, y) == Norm(x[1] * y[2], x[2] * y[1])

RLess(x, y) == x[1] * y[2] < y[1] * x[2]

RAbs(x) == <<Abs(x[1]), x[2]>>

RMin_First(x, y) == x

RMin(x, y) == IF RLess(y, x) THEN y ELSE x

RMax(x, y) == IF RLess(x, y) THEN y ELSE x

Real(q) == [t |-> "real", q |-> q]

Ok(v) == [ok |-> TRUE, val |-> v]

Raise(exc) == [ok |-> FALSE, exc |-> exc]

\* map(float, odds.split('/')) and the unpacking into numerator, denominator:
\* the strings for which it succeeds
FractionalParse == ("5/2" :> <<R(5), R(2)>>) @@ ("1/1" :> <<R(1), R(1)>>)

\* odds_to_implied_probability, american branch (lines 159-165)
AmericanImplied(odds) ==
    IF odds.t # "real" THEN Raise("TypeError")
    ELSE IF RLess(R(0), odds.q)
    THEN Ok(RDiv(R(100), RAdd(odds.q, R(100))))
    ELSE Ok(RDiv(RAbs(odds.q), RAdd(RAbs(odds.q), R(100))))

\* decimal branch (lines 167-169)
DecimalImplied(odds) ==
    IF odds.t # "real" THEN Raise("TypeError")
    ELSE IF odds.q = R(0) THEN Raise("ZeroDivisionError")
    ELSE Ok(RDiv(R(1), odds.q))

\* fractional branch (lines 171-177)
FractionalImplied(odds) ==
    IF odds.t # "str" THEN Raise("ValueError")
    ELSE IF odds.s \notin DOMAIN FractionalParse THEN Raise("ValueError")
    ELSE LET numerator == FractionalParse[odds.s][1]
             denominator == FractionalParse[odds.s][2]
         IN  IF RAdd(numerator, denominator) = R(0) THEN Raise("ZeroDivisionError")
             ELSE Ok(RDiv(denominator, RAdd(numerator, denominator)))

OddsToImpliedProbability_ElseAmerican(odds, odds_format) ==
    IF odds_format = "decimal" THEN DecimalImplied(odds)
    ELSE IF odds_format = "fractional" THEN FractionalImplied(odds)
    ELSE AmericanImplied(odds)

OddsToImpliedProbability(odds, odds_format) ==
    IF odds_format = "american" THEN AmericanImplied(odds)
    ELSE IF odds_format = "decimal" THEN DecimalImplied(odds)
    ELSE IF odds_format = "fractional" THEN FractionalImplied(odds)
    ELSE Raise("ValueError")

\* odds_to_payout (lines 222-255); bet_amount is a float
OddsToPayout(odds, odds_format, bet_amount) ==
    IF odds_format = "american"
    THEN IF odds.t # "real" THEN Raise("TypeError")
         ELSE IF RLess(R(0), odds.q)
         THEN Ok(RAdd(bet_amount, RDiv(RMul(bet_amount, odds.q), R(100))))
         ELSE IF odds.q = R(0) THEN Raise("ZeroDivisionError")
         ELSE Ok(RAdd(bet_amount, RDiv(RMul(bet_amount, R(100)), RAbs(odds.q))))
    ELSE IF odds_format = "decimal"
    THEN IF odds.t # "real" THEN Raise("TypeError")
         ELSE Ok(RMul(bet_amount, odds.q))
    ELSE IF odds_format = "fractional"
    THEN IF odds.t # "str" THEN Raise("ValueError")
         ELSE IF odds.s \notin DOMAIN FractionalParse THEN Raise("ValueError")
         ELSE LET numerator == FractionalParse[odds.s][1]
                  denominator == FractionalParse[odds.s][2]
              IN  IF denominator = R(0) THEN Raise("ZeroDivisionError")
                  ELSE Ok(RAdd(bet_amount, RDiv(RMul(bet_amount, numerator), denominator)))
    ELSE Raise("ValueError")

\* calculate_expected_value (lines 187-219)
CalculateExpectedValue_LossIsPayout(model_probability, bookmaker_odds, odds_format, bet_amount) ==
    LET payout == OddsToPayout(bookmaker_odds, odds_format, bet_amount) IN
    IF ~ payout.ok THEN payout
    ELSE LET profit_if_win == RSub(payout.val, bet_amount)
             loss_if_loss == payout.val
         IN  Ok(RSub(RMul(model_probability, profit_if_win),
                     RMul(RSub(R(1), model_probability), loss_if_loss)))

CalculateExpectedValue(model_probability, bookmaker_odds, odds_format, bet_amount) ==
    LET payout == OddsToPayout(bookmaker_odds, odds_format, bet_amount) IN
    IF ~ payout.ok THEN payout
    ELSE LET profit_if_win == RSub(payout.val, bet_amount)
             loss_if_loss == bet_amount
         IN  Ok(RSub(RMul(model_probability, profit_if_win),
                     RMul(RSub(R(1), model_probability), loss_if_loss)))

\* Step 4 of calculate_edge (lines 112-117)
Recommend_NotStrict(edge, edge_threshold) ==
    IF ~ RLess(edge, edge_threshold) THEN "bet"
    ELSE IF ~ RLess(RSub(R(0), edge_threshold), edge) THEN "pass"
    ELSE "neutral"

Recommend(edge, edge_threshold) ==
    IF RLess(edge_threshold, edge) THEN "bet"
    ELSE IF RLess(edge, RSub(R(0), edge_threshold)) THEN "pass"
    ELSE "neutral"

\* calculate_edge (lines 52-137): the EdgeCalculation, or the exception
CalculateEdge(model_probability, bookmaker_odds, odds_format, edge_threshold, bet_amount) ==
    LET implied_probability == OddsToImpliedProbability(bookmaker_odds, odds_format) IN
    IF ~ implied_probability.ok THEN implied_probability
    ELSE LET edge == RSub(model_probability, implied_probability.val)
             ev == CalculateExpectedValue(model_probability, bookmaker_odds,
                                          odds_format, bet_amount)
         IN  IF ~ ev.ok THEN ev
             ELSE Ok([model_probability |-> model_probability,
                      implied_probability |-> implied_probability.val,
                      edge |-> edge,
                      expected_value |-> ev.val,
                      recommended_side |-> Recommend(edge, edge_threshold),
                      confidence |-> RMin(RMul(RAbs(edge), R(2)), R(1))])

\* kelly_pct = max(0, kelly_pct) (line 306)
NonNegative_NoClamp(kelly_pct) == kelly_pct

NonNegative(kelly_pct) == RMax(R(0), kelly_pct)

\* calculate_kelly_criterion (lines 258-308)
CalculateKellyCriterion(model_probability, bookmaker_odds, odds_format, fraction) ==
    LET decimal_odds ==
            IF odds_format = "american"
            THEN IF bookmaker_odds.t # "real" THEN Raise("TypeError")
                 ELSE IF RLess(R(0), bookmaker_odds.q)
                 THEN Ok(RAdd(RDiv(bookmaker_odds.q, R(100)), R(1)))
                 ELSE IF bookmaker_odds.q = R(0) THEN Raise("ZeroDivisionError")
                 ELSE Ok(RAdd(RDiv(R(100), RAbs(bookmaker_odds.q)), R(1)))
            ELSE IF odds_format = "decimal"
            THEN IF bookmaker_odds.t # "real" THEN Raise("TypeError")
                 ELSE Ok(bookmaker_odds.q)
            ELSE Raise("ValueError")
    IN  IF ~ decimal_odds.ok THEN decimal_odds
        ELSE LET b == RSub(decimal_odds.val, R(1))
                 p == model_probability
                 q == RSub(R(1), p)
             IN  IF b = R(0) THEN Raise("ZeroDivisionError")
                 ELSE Ok(NonNegative(RMul(RDiv(RSub(RMul(b, p), q), b), fraction)))

\* The arguments tried.  Probabilities, thresholds and fractions are binary
\* fractions, which a float holds exactly, so that an edge on the boundary
\* of the rational model is on the boundary in the program as well; 11/21
\* (the float 0.5238095238095238, the implied probability of american -110),
\* 3/5 and 1/20 stand for the floats nearest to them and put no edge on a
\* threshold.
Probabilities ==
    {<<0, 1>>, <<1, 4>>, <<3, 8>>, <<1, 2>>, <<5, 8>>, <<3, 4>>, <<1, 1>>, <<11, 21>>, <<3, 5>>}

OddsNumbers == {R(-110), R(-100), R(-2), R(0), <<1, 2>>, R(1), R(2), R(100), R(150)}

OddsStrings == {"5/2", "1/1", "bad"}

OddsValues == {Real(q) : q \in OddsNumbers} \cup {Str(x) : x \in OddsStrings}

OddsFormats == {"american", "decimal", "fractional", "moneyline"}

Thresholds == {<<-1, 8>>, <<0, 1>>, <<1, 20>>, <<1, 8>>, <<1, 4>>}

BetAmounts == {R(100), R(10)}

Fractions == {<<1, 4>>, <<1, 2>>, <<1, 1>>}

\* A float holds a binary fraction of this size exactly
Dyadic(q) == \E k \in 0..20 : q[2] = 2 ^ k

\* The rounding of ev = (model_probability * profit_if_win) -
\* ((1 - model_probability) * loss_if_loss) (line 215) in binary64: none when
\* the probability and the payout are binary fractions, since every
\* intermediate value then is one; otherwise the computed ev is the real
\* value or lies a rounding error (below 1e-13 here, smaller than every
\* non-zero value of these inputs) under or over it.
EvRounding(model_probability, bookmaker_odds, odds_format, bet_amount) ==
    LET payout == OddsToPayout(bookmaker_odds, odds_format, bet_amount) IN
    IF payout.ok /\ ~ (Dyadic(model_probability) /\ Dyadic(payout.val))
    THEN {-1, 0, 1}
    ELSE {0}

Call_CalculateEdge ==
    /\ call = NoCall
    /\ \E p \in Probabilities, odds \in OddsValues, odds_format \in OddsFormats,
          t \in Thresholds, bet \in BetAmounts :
          \E rounding \in EvRounding(p, odds, odds_format, bet) :
             call' = [op |-> "calculate_edge", model_probability |-> p, bookmaker_odds |-> odds,
                      odds_format |-> odds_format, edge_threshold |-> t, bet_amount |-> bet,
                      ev_rounding |-> rounding,
                      ret |-> CalculateEdge(p, odds, odds_format, t, bet)]
    /\ UNCHANGED <<directory, loaded_models, model_metadata, pc, model_files, cur, passes>>

Call_OddsToImpliedProbability ==
    /\ call = NoCall
    /\ \E odds \in OddsValues, odds_format \in OddsFormats :
          call' = [op |-> "odds_to_implied_probability", odds |-> odds,
                   odds_format |-> odds_format,
                   ret |-> OddsToImpliedProbability(odds, odds_format)]
    /\ UNCHANGED <<directory, loaded_models, model_metadata, pc, model_files, cur, passes>>

Call_OddsToPayout ==
    /\ call = NoCall
    /\ \E odds \in OddsValues, odds_format \in OddsFormats, bet \in BetAmounts :
          call' = [op |-> "odds_to_payout", odds |-> odds, odds_format |-> odds_format,
                   bet_amount |-> bet, ret |-> OddsToPayout(odds, odds_format, bet)]
    /\ UNCHANGED <<directory, loaded_models, model_metadata, pc, model_files, cur, passes>>

Call_CalculateKellyCriterion ==
    /\ call = NoCall
    /\ \E p \in Probabilities, odds \in OddsValues, odds_format \in OddsFormats,
          fraction \in Fractions :
          call' = [op |-> "calculate_kelly_criterion", model_probability |-> p,
                   bookmaker_odds |-> odds, odds_format |-> odds_format, fraction |-> fraction,
                   ret |-> CalculateKellyCriterion(p, odds, odds_format, fraction)]
    /\ UNCHANGED <<directory, loaded_models, model_metadata, pc, model_files, cur, passes>>

NextEdge ==
    \/ Call_CalculateEdge
    \/ Call_OddsToImpliedProbability
    \/ Call_OddsToPayout
    \/ Call_CalculateKellyCriterion
    \/ Call_Return

SpecEdge == InitPrepare /\ [][NextEdge]_vars

----------------------------------------------------------------------------
(* Claims about the edge calculator *)

\* Odds whose implied probability lies in (0, 1): american odds other than
\* 0, decimal odds above 1, a fractional string of two positive numbers.
ValidOdds(odds, odds_format) ==
    \/ odds_format = "american" /\ odds.t = "real" /\ odds.q # <<0, 1>>
    \/ odds_format = "decimal" /\ odds.t = "real" /\ RLess(<<1, 1>>, odds.q)
    \/ odds_format = "fractional" /\ odds.t = "str" /\ odds.s \in {"5/2", "1/1"}

DecimalOddsOf(odds, odds_format) ==
    IF odds_format = "decimal" THEN odds.q
    ELSE IF RLess(<<0, 1>>, odds.q) THEN RAdd(RDiv(odds.q, <<100, 1>>), <<1, 1>>)
    ELSE RAdd(RDiv(<<100, 1>>, RAbs(odds.q)), <<1, 1>>)

RawKelly(p, odds, odds_format, fraction) ==
    LET b == RSub(DecimalOddsOf(odds, odds_format), <<1, 1>>) IN
    RMul(RSub(p, RDiv(RSub(<<1, 1>>, p), b)), fraction)

\* C15: for p in [0, 1], valid american or decimal odds and a fraction in
\* (0, 1], calculate_kelly_criterion returns a value in [0, 1], and exactly 0
\* when the raw Kelly value is negative.
C15_KellyNonNegative ==
    ( /\ call.op = "calculate_kelly_criterion"
      /\ call.odds_format \in {"american", "decimal"}
      /\ ValidOdds(call.bookmaker_odds, call.odds_format) ) =>
        /\ call.ret.ok
        /\ ~ RLess(call.ret.val, <<0, 1>>)
        /\ ~ RLess(<<1, 1>>, call.ret.val)
        /\ RLess(RawKelly(call.model_probability, call.bookmaker_odds,
                          call.odds_format, call.fraction), <<0, 1>>)
               => call.ret.val = <<0, 1>>

C15_Witness ==
    /\ call.op = "calculate_kelly_criterion"
    /\ call.model_probability = <<1, 4>>
    /\ call.bookmaker_odds = Real(<<-110, 1>>)
    /\ call.odds_format = "american"
    /\ RLess(RawKelly(call.model_probability, call.bookmaker_odds,
                      call.odds_format, call.fraction), <<0, 1>>)
    /\ call.ret = [ok |-> TRUE, val |-> <<0, 1>>]

AmericanZero ==
    /\ call.op \in {"odds_to_implied_probability", "calculate_edge"}
    /\ call.odds_format = "american"
    /\ (IF call.op = "calculate_edge" THEN call.bookmaker_odds ELSE call.odds) = Real(<<0, 1>>)

\* C16: american odds of 0 are rejected: odds_to_implied_probability raises
\* instead of returning a probability, and calculate_edge returns no
\* EdgeCalculation.
C16_AmericanZeroRejected ==
    AmericanZero => ~ call.ret.ok

\* What the code does in the case of C16: the probability 0 is returned, and
\* calculate_edge ends with the ZeroDivisionError of odds_to_payout.
C16_AmericanZeroIsZeroProbability ==
    AmericanZero =>
        IF call.op = "calculate_edge"
        THEN call.ret = [ok |-> FALSE, exc |-> "ZeroDivisionError"]
        ELSE call.ret = [ok |-> TRUE, val |-> <<0, 1>>]

\* C17: decimal odds <= 0 are rejected by odds_to_implied_probability, so no
\* implied probability outside (0, 1) is returned for decimal odds.
C17_DecimalNonPositiveRejected ==
    ( /\ call.op = "odds_to_implied_probability"
      /\ call.odds_format = "decimal"
      /\ call.odds.t = "real" ) =>
        /\ ~ RLess(<<0, 1>>, call.odds.q) => ~ call.ret.ok
        /\ call.ret.ok => RLess(<<0, 1>>, call.ret.val) /\ RLess(call.ret.val, <<1, 1>>)

\* What the code does in the case of C17: only 0 is rejected (by the
\* division), and 1 / odds is returned for every other number.
C17_DecimalOnlyZeroRejected ==
    ( /\ call.op = "odds_to_implied_probability"
      /\ call.odds_format = "decimal"
      /\ call.odds.t = "real" ) =>
        IF call.odds.q = <<0, 1>>
        THEN call.ret = [ok |-> FALSE, exc |-> "ZeroDivisionError"]
        ELSE call.ret.ok /\ RMul(call.ret.val, call.odds.q) = <<1, 1>>

\* C18: an odds_format other than american, decimal or fractional makes
\* odds_to_implied_probability, odds_to_payout and calculate_edge raise;
\* fractional odds that are not a string raise; calculate_kelly_criterion
\* raises for the fractional format; no result is returned in these cases.
C18_FormatErrorsRaise ==
    /\ ( /\ call.op \in {"odds_to_implied_probability", "odds_to_payout", "calculate_edge"}
         /\ call.odds_format \notin {"american", "decimal", "fractional"} )
           => call.ret = [ok |-> FALSE, exc |-> "ValueError"]
    /\ ( /\ call.op \in {"odds_to_implied_probability", "odds_to_payout"}
         /\ call.odds_format = "fractional"
         /\ call.odds.t # "str" )
           => call.ret = [ok |-> FALSE, exc |-> "ValueError"]
    /\ ( /\ call.op = "calculate_edge"
         /\ call.odds_format = "fractional"
         /\ call.bookmaker_odds.t # "str" )
           => call.ret = [ok |-> FALSE, exc |-> "ValueError"]
    /\ ( /\ call.op = "calculate_kelly_criterion"
         /\ call.odds_format = "fractional" )
           => call.ret = [ok |-> FALSE, exc |-> "ValueError"]

C18_Witness ==
    /\ call.op = "calculate_edge"
    /\ call.odds_format = "moneyline"
    /\ call.bookmaker_odds = Real(<<-110, 1>>)
    /\ call.ret = [ok |-> FALSE, exc |-> "ValueError"]

----------------------------------------------------------------------------
(* Claims about the payload of predict *)

ProbabilityCapable(model) ==
    model \in {"FakeFullModel", "FakeFullModelWithException", "LogisticRegression",
               "RandomForestClassifier"}

PredictOn(model) ==
    /\ call.op = "predict"
    /\ \E i \in 1..Len(loaded_models) :
          loaded_models[i][1] = call.version /\ loaded_models[i][2].model = model

SuccessKeys ==
    {"home_win_probability", "away_win_probability", "confidence", "model_version",
     "prediction_time_ms"}

\* C19: with a model that has predict_proba, a successful predict reports
\* home_win_probability = P(class 1), away_win_probability = P(class 0),
\* confidence = |home_win_probability - 0.5| * 2, within [0, 1], and
\* model_version = the version asked for.
C19_ProbabilityPayload ==
    \A model \in {"FakeFullModel", "LogisticRegression", "RandomForestClassifier"} :
        PredictOn(model) =>
            LET ret == call.out.ret
                row == PredictProba(model, << << >> >>).val[1]
            IN  /\ DOMAIN ret = SuccessKeys
                /\ ret.home_win_probability = row[2]
                /\ ret.away_win_probability = row[1]
                /\ ret.confidence = 2 * (IF row[2] >= 500 THEN row[2] - 500 ELSE 500 - row[2])
                /\ ret.confidence \in 0..1000
                /\ ret.model_version = call.version

C19_Witness ==
    /\ PredictOn("LogisticRegression")
    /\ call.out.ret.home_win_probability = 200
    /\ call.out.ret.away_win_probability = 800
    /\ call.out.ret.confidence = 600

----------------------------------------------------------------------------
(* More claims about the registry *)

NoModelFiles == \A p \in DOMAIN directory : p.suffix \notin {"pkl", "joblib"}

\* C21: load_models on a directory that is missing or holds no .pkl/.joblib
\* file returns normally and leaves loaded_models and model_metadata as they
\* were.
C21_NoFilesNoChange ==
    /\ [](pc # "raised")
    /\ [][ (pc = "idle" /\ NoModelFiles /\ passes' # passes)
           => ( /\ pc' = "idle"
                /\ passes' = passes + 1
                /\ loaded_models' = loaded_models
                /\ model_metadata' = model_metadata ) ]_vars
    /\ []((NoModelFiles /\ passes = 0) => (loaded_models = << >> /\ model_metadata = << >>))

C21_Witness ==
    /\ pc = "idle"
    /\ passes = 2
    /\ NoModelFiles
    /\ Len(loaded_models) >= 1
    /\ Len(model_metadata) >= 1

\* The model file of a stem that a pass leaves registered: the .joblib file
\* when it loads, else the .pkl file.
Loads(p) == p \in DOMAIN directory /\ ~ MarkedInactive(p) /\ Deserializes(p)

LastLoaded(stem) ==
    IF Loads([stem |-> stem, suffix |-> "joblib"])
    THEN [stem |-> stem, suffix |-> "joblib"]
    ELSE [stem |-> stem, suffix |-> "pkl"]

MetadataOnDisk(stem) ==
    IF SidecarAbsent([stem |-> stem, suffix |-> "pkl"]) \/ SidecarMalformed([stem |-> stem, suffix |-> "pkl"])
    THEN [is_active |-> TRUE, expected_features |-> PyList(<< >>)]
    ELSE directory[[stem |-> stem, suffix |-> "json"]].fields

NoDuplicateKeys(d) == \A i, j \in 1..Len(d) : d[i][1] = d[j][1] => i = j

\* C22: a second load_models over the unchanged directory leaves the same
\* versions, the same metadata and the same source path per version as the
\* first, with no entry duplicated or dropped: at every return the registry
\* is the one that the directory alone determines.
C22_LoadIdempotent ==
    Returned =>
        /\ NoDuplicateKeys(loaded_models)
        /\ NoDuplicateKeys(model_metadata)
        /\ {loaded_models[i][1] : i \in 1..Len(loaded_models)}
               = {p.stem : p \in {q \in ModelFilesOnDisk : Loads(q)}}
        /\ {model_metadata[i][1] : i \in 1..Len(model_metadata)}
               = {p.stem : p \in {q \in ModelFilesOnDisk : Loads(q)}}
        /\ \A i \in 1..Len(loaded_models) :
              loaded_models[i][2].path = LastLoaded(loaded_models[i][1])
        /\ \A i \in 1..Len(model_metadata) :
              model_metadata[i][2] = MetadataOnDisk(model_metadata[i][1])

C22_Witness ==
    /\ pc = "idle"
    /\ passes = 2
    /\ Len(loaded_models) = 2
    /\ \A i \in 1..Len(loaded_models) : loaded_models[i][2].loaded_at = 2
    /\ \E p \in ModelFilesOnDisk : ~ Loads(p)

\* C27: after any sequence of load_models passes the keys of loaded_models
\* are the keys of model_metadata.
C27_SameKeys ==
    pc = "idle" =>
        {loaded_models[i][1] : i \in 1..Len(loaded_models)}
            = {model_metadata[i][1] : i \in 1..Len(model_metadata)}

C27_Witness ==
    /\ pc = "idle"
    /\ passes = 2
    /\ Len(loaded_models) >= 1
    /\ Len(model_metadata) >= 1
    /\ \E p, q \in ModelFilesOnDisk : p # q /\ p.stem = q.stem /\ ~ Deserializes(p)
    /\ \E p \in ModelFilesOnDisk : MarkedInactive(p)

\* C28: when X.pkl and X.joblib both exist and both deserialize, the registry
\* holds one entry for X, from the .joblib file, which is processed after
\* every .pkl file; when the later file does not deserialize the entry of the
\* earlier one is kept.
BothOnDisk(stem) ==
    /\ [stem |-> stem, suffix |-> "pkl"] \in DOMAIN directory
    /\ [stem |-> stem, suffix |-> "joblib"] \in DOMAIN directory
    /\ ~ MarkedInactive([stem |-> stem, suffix |-> "pkl"])

C28_DuplicateStemLastWins ==
    /\ pc = "loop" =>
          \A i, j \in 1..Len(model_files) :
              (model_files[i].suffix = "joblib" /\ model_files[j].suffix = "pkl") => j < i
    /\ Returned =>
          \A stem \in {p.stem : p \in ModelFilesOnDisk} :
              (BothOnDisk(stem) /\ Deserializes([stem |-> stem, suffix |-> "pkl"])) =>
                  /\ Cardinality({i \in 1..Len(loaded_models) : loaded_models[i][1] = stem}) = 1
                  /\ \A i \in 1..Len(loaded_models) :
                        loaded_models[i][1] = stem =>
                            loaded_models[i][2].path.suffix =
                                IF Deserializes([stem |-> stem, suffix |-> "joblib"])
                                THEN "joblib" ELSE "pkl"

C28_Witness ==
    /\ Returned
    /\ \E x, y \in {p.stem : p \in ModelFilesOnDisk} :
          /\ BothOnDisk(x) /\ BothOnDisk(y)
          /\ Deserializes([stem |-> x, suffix |-> "pkl"])
          /\ Deserializes([stem |-> x, suffix |-> "joblib"])
          /\ \E i \in 1..Len(loaded_models) :
                loaded_models[i][1] = x /\ loaded_models[i][2].path.suffix = "joblib"

----------------------------------------------------------------------------
(* The registry while the service answers *)

\* C23: once load_models has returned, no predict (with its prepare_features),
\* get_loaded_models or get_model_info call adds, removes or changes an entry
\* of loaded_models or model_metadata; get_model_info answers without the
\* model object while the stored entry keeps it; every name that
\* get_loaded_models returns has a get_model_info that is not None.
C23_RegistryReadOnly ==
    /\ [][ (pc = "idle" /\ passes >= 1)
           => (loaded_models' = loaded_models /\ model_metadata' = model_metadata) ]_vars
    /\ []( (call # NoCall /\ call.op = "get_model_info" /\ call.ret # PyNone) =>
              /\ DOMAIN call.ret = {"path", "loaded_at", "metadata"}
              /\ DictHas(loaded_models, call.version)
              /\ "model" \in DOMAIN DictGet(loaded_models, call.version)
              /\ DictGet(loaded_models, call.version).model
                     = directory[DictGet(loaded_models, call.version).path].obj )
    /\ []( (call # NoCall /\ call.op = "get_loaded_models") =>
              \A i \in 1..Len(call.ret) : GetModelInfo(call.ret[i]) # PyNone )

C23_Witness ==
    /\ call # NoCall
    /\ call.op = "get_model_info"
    /\ call.ret # PyNone
    /\ Len(loaded_models) = 2
    /\ "model" \in DOMAIN DictGet(loaded_models, call.version)

----------------------------------------------------------------------------
(* Latency accounting *)

Timed ==
    /\ call # NoCall
    /\ call.op = "predict"
    /\ call.out.ret # PyNone
    /\ "prediction_time_ms" \in DOMAIN call.out.ret

\* C25 as stated: prediction_time_ms is the time of the scoring alone, without
\* the lookup and without prepare_features.
C25_TimerCoversScoringOnly ==
    Timed => call.out.ret.prediction_time_ms = call.scoring_ticks

\* C25: prediction_time_ms is the time from the entry of predict to the end of
\* the scoring: the lookup, prepare_features and the scoring together.
C25_TimerCoversWholeCall ==
    Timed => call.out.ret.prediction_time_ms
                 = call.lookup_ticks + call.prepare_ticks + call.scoring_ticks

C25_Witness ==
    /\ Timed
    /\ call.lookup_ticks = 1
    /\ call.prepare_ticks = 1
    /\ call.scoring_ticks = 0
    /\ call.out.ret.prediction_time_ms = 2

----------------------------------------------------------------------------
(* training/train.py: main *)

\* MODEL_CONFIGS (model_config.py lines 47-141): name and estimator class
ModelConfigs ==
    << [name |-> "home_win", model_type |-> "LogisticRegression"],
       [name |-> "home_cover", model_type |-> "RandomForestClassifier"],
       [name |-> "total_over", model_type |-> "LogisticRegression"],
       [name |-> "player_points_over_25", model_type |-> "RandomForestClassifier"],
       [name |-> "player_rebounds_over_10", model_type |-> "LogisticRegression"],
       [name |-> "overtime_yes", model_type |-> "LogisticRegression"],
       [name |-> "first_team_to_20", model_type |-> "LogisticRegression"] >>

\* the metadata that train_single_model builds (lines 227-242)
TrainedMetadata == JsonObject([is_active |-> TRUE, expected_features |-> PyList(<<"a", "z">>)])

\* if failed: sys.exit(1) (lines 164-165); main returns otherwise
ExitCode_AlwaysZero(failed) == 0

ExitCode(failed) == IF failed # << >> THEN 1 ELSE 0

Failed(training_results) == SelectSeq(training_results, LAMBDA r : r.status = "failed")

InMain(at) == call # NoCall /\ call.op = "main" /\ call.at = at

\* main up to the loop: the configurations, models_dir, training_results = []
Main_Start ==
    /\ call = NoCall
    /\ pc = "idle"
    /\ \E n \in 0..MaxConfigs :
          call' = [op |-> "main", at |-> "train", i |-> 1,
                   model_configs |-> SubSeq(ModelConfigs, 1, n),
                   training_results |-> << >>, trace |-> << >>, exit_code |-> -1]
    /\ UNCHANGED <<directory, loaded_models, model_metadata, pc, model_files, cur, passes>>

\* result = train_single_model(...) (line 115): it returns the result, or it
\* raises and the except of line 124 records the failure
Main_TrainSingleModel ==
    /\ InMain("train")
    /\ call.i <= Len(call.model_configs)
    /\ LET config == call.model_configs[call.i] IN
       \/ call' = [call EXCEPT !.at = "save",
                               !.trace = Append(@, [fn |-> "train_single_model",
                                                    name |-> config.name, raised |-> FALSE])]
       \/ call' = [call EXCEPT !.i = @ + 1,
                               !.trace = Append(@, [fn |-> "train_single_model",
                                                    name |-> config.name, raised |-> TRUE]),
                               !.training_results =
                                   Append(@, [model_name |-> config.name, status |-> "failed"])]
    /\ UNCHANGED <<directory, loaded_models, model_metadata, pc, model_files, cur, passes>>

\* save_model(result, models_dir) (line 119) and training_results.append(result):
\* joblib.dump writes the .pkl file, json.dump the .json file, and either may
\* raise into the except of line 124
Main_SaveModel ==
    /\ InMain("save")
    /\ LET config == call.model_configs[call.i]
           pkl == (Path(config.name, "pkl") :> Pickled(config.model_type))
           saved == [call EXCEPT !.at = "train", !.i = @ + 1,
                                 !.trace = Append(@, [fn |-> "save_model",
                                                      name |-> config.name, raised |-> FALSE]),
                                 !.training_results =
                                     Append(@, [model_name |-> config.name, status |-> "success"])]
           failed == [call EXCEPT !.at = "train", !.i = @ + 1,
                                  !.trace = Append(@, [fn |-> "save_model",
                                                       name |-> config.name, raised |-> TRUE]),
                                  !.training_results =
                                      Append(@, [model_name |-> config.name, status |-> "failed"])]
       IN  \/ /\ call' = saved
              /\ directory' = Merge(pkl @@ (Path(config.name, "json") :> TrainedMetadata), directory)
           \/ /\ call' = failed
              /\ directory' = directory
           \/ /\ call' = failed
              /\ directory' = Merge(pkl @@ (Path(config.name, "json") :> JsonError), directory)
    /\ UNCHANGED <<loaded_models, model_metadata, pc, model_files, cur, passes>>

\* the summary and the exit (lines 132-165)
Main_Exit ==
    /\ InMain("train")
    /\ call.i > Len(call.model_configs)
    /\ call' = [call EXCEPT !.at = "done",
                            !.exit_code = ExitCode(Failed(call.training_results))]
    /\ UNCHANGED <<directory, loaded_models, model_metadata, pc, model_files, cur, passes>>

NextTrain ==
    \/ Main_Start
    \/ Main_TrainSingleModel
    \/ Main_SaveModel
    \/ Main_Exit

SpecTrain == InitPrepare /\ [][NextTrain]_vars

Calls(fn) == SelectSeq(call.trace, LAMBDA e : e.fn = fn)

Names(seq) == [k \in 1..Len(seq) |-> seq[k].name]

\* C24: main calls train_single_model once per configuration, in order; a
\* failure in training or saving one model does not stop the following ones;
\* save_model is called only for the models whose training succeeded; the
\* exit code is 1 exactly when at least one model failed.
C24_EveryModelAttempted ==
    /\ (call # NoCall /\ call.op = "main") =>
          /\ \A k \in 1..Len(call.trace) :
                call.trace[k].fn = "save_model" =>
                    /\ k > 1
                    /\ call.trace[k - 1] = [fn |-> "train_single_model",
                                            name |-> call.trace[k].name, raised |-> FALSE]
          /\ Names(Calls("train_single_model"))
                 = Names(SubSeq(call.model_configs, 1, Len(Calls("train_single_model"))))
    /\ InMain("done") =>
          /\ Names(Calls("train_single_model")) = Names(call.model_configs)
          /\ Names(Calls("save_model"))
                 = Names(SelectSeq(Calls("train_single_model"), LAMBDA e : ~ e.raised))
          /\ [k \in 1..Len(call.training_results) |-> call.training_results[k].model_name]
                 = Names(call.model_configs)
          /\ call.exit_code \in {0, 1}
          /\ call.exit_code = 1 <=> \E k \in 1..Len(call.trace) : call.trace[k].raised
          /\ \A k \in 1..Len(call.training_results) :
                call.training_results[k].status = "failed"
                    <=> \E j \in 1..Len(call.trace) :
                           /\ call.trace[j].name = call.training_results[k].model_name
                           /\ call.trace[j].raised

C24_Witness ==
    /\ InMain("done")
    /\ Len(call.model_configs) = 3
    /\ call.trace[1].raised
    /\ \E k \in 1..Len(call.trace) : call.trace[k].fn = "save_model" /\ call.trace[k].raised
    /\ call.trace[Len(call.trace)] = [fn |-> "save_model", name |-> "total_over", raised |-> FALSE]
    /\ call.exit_code = 1

----------------------------------------------------------------------------
(* Readers while load_models runs *)

\* load_models is a public method of the service object that the request
\* threads read: a thread that calls predict or get_model_info while another
\* runs load_models reads the two dictionaries between any two statements of
\* the loop.
Reader_Predict ==
    /\ call = NoCall
    /\ \E version \in {"nba", "nonexistent_model"}, features \in CallFeatures, dl, dp, ds \in Ticks :
          call' = [op |-> "predict", version |-> version, features |-> features,
                   expected_features |-> ExpectedFeatures(version),
                   out |-> Predict(version, features, dl, dp, ds)]
    /\ UNCHANGED <<directory, loaded_models, model_metadata, pc, model_files, cur, passes>>

Reader_GetModelInfo ==
    /\ call = NoCall
    /\ \E version \in {"nba", "nonexistent_model"} :
          /\ call' = [op |-> "get_model_info", version |-> version, ret |-> GetModelInfo(version)]
          /\ loaded_models' =
                IF Found(version)
                THEN DictPut(loaded_models, version,
                             StoredAfterInfo(Lookup(version), GetModelInfo(version)))
                ELSE loaded_models
    /\ UNCHANGED <<directory, model_metadata, pc, model_files, cur, passes>>

InitConcurrent ==
    /\ directory \in DirectoriesOver({"nba"}, {Pickled("FakeFullModel")}, {ActiveMeta}, MaxFiles)
    /\ InitService

NextConcurrent ==
    \/ LoadModels_Start
    \/ LoadModels_Iter
    \/ LoadModels_StoreMeta
    \/ LoadModels_Return
    \/ Reader_Predict
    \/ Reader_GetModelInfo
    \/ Call_Return

SpecConcurrent == InitConcurrent /\ [][NextConcurrent]_vars

\* C26: a reader that runs interleaved with load_models never sees a version
\* in loaded_models without its metadata in model_metadata: get_model_info
\* answers with the version's metadata, and predict orders the features by
\* the expected_features of the version's sidecar, never by the alphabetical
\* fallback.
C26_NoPartiallyUpdatedRegistry ==
    /\ (call # NoCall /\ call.op = "get_model_info" /\ call.ret # PyNone) =>
          call.ret.metadata = MetadataOnDisk(call.version)
    /\ (call # NoCall /\ call.op = "predict" /\ call.out.prepared) =>
          call.expected_features = Get(MetadataOnDisk(call.version), "expected_features", PyList(<< >>))

\* The window is the one between lines 89 and 91: outside it the reader gets
\* the metadata.
C26_PartialOnlyBetweenStores ==
    /\ pc # "store_meta" =>
          {loaded_models[i][1] : i \in 1..Len(loaded_models)}
              = {model_metadata[i][1] : i \in 1..Len(model_metadata)}
    /\ {model_metadata[i][1] : i \in 1..Len(model_metadata)}
           \subseteq {loaded_models[i][1] : i \in 1..Len(loaded_models)}

----------------------------------------------------------------------------
(* Expected value and confidence *)

Sign(q) == IF q[1] > 0 THEN 1 ELSE IF q[1] < 0 THEN -1 ELSE 0

EdgeCall ==
    /\ call # NoCall
    /\ call.op = "calculate_edge"
    /\ ValidOdds(call.bookmaker_odds, call.odds_format)

\* the sign of the float that calculate_edge returns as expected_value: the
\* sign of the real value, or of the rounding error when the real value is 0
ReturnedEvSign ==
    IF Sign(call.ret.val.expected_value) # 0
    THEN Sign(call.ret.val.expected_value)
    ELSE call.ev_rounding

C30_EdgeAndConfidence ==
    /\ EdgeCall =>
          /\ call.ret.ok
          /\ LET r == call.ret.val
                 implied == OddsToImpliedProbability(call.bookmaker_odds, call.odds_format).val
             IN  /\ r.implied_probability = implied
                 /\ r.model_probability = call.model_probability
                 /\ RAdd(r.edge, r.implied_probability) = r.model_probability
                 /\ r.confidence = (IF RLess(RMul(R(2), RAbs(r.edge)), R(1))
                                    THEN RMul(R(2), RAbs(r.edge)) ELSE R(1))
                 /\ ~ RLess(r.confidence, R(0))
                 /\ ~ RLess(R(1), r.confidence)
                 /\ ~ RLess(RAbs(r.edge), <<1, 2>>) => r.confidence = R(1)
    /\ ( /\ call # NoCall
         /\ call.op = "calculate_edge"
         /\ call.model_probability = <<3, 5>>
         /\ call.bookmaker_odds = Real(R(-110))
         /\ call.odds_format = "american"
         /\ call.edge_threshold = <<1, 20>> ) =>
          /\ call.ret.ok
          /\ LET r == call.ret.val
                 Near(q, n) == ~ RLess(RMul(q, R(20000)), R(2 * n - 1))
                               /\ RLess(RMul(q, R(20000)), R(2 * n + 1))
             IN  /\ Near(r.implied_probability, 5238)
                 /\ Near(r.edge, 762)
                 /\ Near(r.confidence, 1524)
                 /\ r.recommended_side = "bet"

C30_Witness ==
    /\ EdgeCall
    /\ call.ret.ok
    /\ call.model_probability = <<3, 5>>
    /\ call.bookmaker_odds = Real(R(-110))
    /\ call.edge_threshold = <<1, 20>>
    /\ call.ret.val.confidence = <<16, 105>>
    /\ call.ret.val.recommended_side = "bet"

\* a call whose edge is at least 1/2 in magnitude
C30_Saturated ==
    /\ EdgeCall
    /\ call.ret.ok
    /\ RLess(<<1, 2>>, RAbs(call.ret.val.edge))
    /\ call.ret.val.confidence = R(1)

====
